---------------------------- MODULE Spec2Model ----------------------------
(***************************************************************************)
(* sqlalchemy-parseable: the three DB-API cursor implementations of the    *)
(* repository                                                              *)
(*   "root"      src/__init__.py                                           *)
(*   "connector" src/parseable_connector/__init__.py                       *)
(*   "dialect"   src/parseable_connector/parseable_dialect.py              *)
(* and the query rewriting of the table-scoped client (dialect).           *)
(*                                                                         *)
(* A Python str is a sequence of one-character strings, so that the        *)
(* regular expressions and str methods of the source act on characters.    *)
(***************************************************************************)
EXTENDS Integers, Sequences, FiniteSets, TLC

\* ------------------------------------------------------------------------
\* Characters and the str methods the source uses
\* ------------------------------------------------------------------------

\* Python's None where a str is expected: no str, as every character of a
\* str is a string of length one
None == <<"None">>

\* a mutation of Or: the default is forgotten
OrWithoutDefault(a, b) == a

\* a or b, for an Optional[str] a
Or(a, b) == IF a = None \/ a = <<>> THEN b ELSE a

\* str.upper() / re.IGNORECASE on the ASCII letters
UpperOf == [a |-> "A", b |-> "B", c |-> "C", d |-> "D", e |-> "E", f |-> "F",
            g |-> "G", h |-> "H", i |-> "I", j |-> "J", k |-> "K", l |-> "L",
            m |-> "M", n |-> "N", o |-> "O", p |-> "P", q |-> "Q", r |-> "R",
            s |-> "S", t |-> "T", u |-> "U", v |-> "V", w |-> "W", x |-> "X",
            y |-> "Y", z |-> "Z"]

Up(c) == IF c \in DOMAIN UpperOf THEN UpperOf[c] ELSE c

\* the element of a singleton set.  A LET definition and an operator argument
\* stand for their expression, which is computed wherever the name is used;
\* the bound identifier of {e : v \in {x}} stands for the value of x, which
\* is computed once
The(S) == CHOOSE v \in S : TRUE

Upper(text) == The({[i \in 1..Len(s) |-> Up(s[i])] : s \in {text}})

\* what \s matches and what str.strip() removes
Whitespace == {" ", "\n", "\t"}

DigitValue == [i \in {"0", "1", "2", "3", "4", "5", "6", "7", "8", "9"} |->
                 CASE i = "0" -> 0 [] i = "1" -> 1 [] i = "2" -> 2 [] i = "3" -> 3
                   [] i = "4" -> 4 [] i = "5" -> 5 [] i = "6" -> 6 [] i = "7" -> 7
                   [] i = "8" -> 8 [] i = "9" -> 9]

Digits == DOMAIN DigitValue

DigitChar == <<"0", "1", "2", "3", "4", "5", "6", "7", "8", "9">>

\* what \w matches: \b lies between a \w and a non-\w character
IsWordChar(c) == Up(c) \in (DOMAIN UpperOf \cup {UpperOf[a] : a \in DOMAIN UpperOf}
                              \cup Digits \cup {"_"})

\* the least element of a non-empty set of integers
Least(set) == The({(CHOOSE i \in S : \A j \in S : i <= j) : S \in {set}})

Greatest(set) == The({(CHOOSE i \in S : \A j \in S : i >= j) : S \in {set}})

\* int("007") = 7
RECURSIVE ParseIntFrom(_, _, _)
ParseIntFrom(s, i, acc) ==
  IF i > Len(s) THEN acc ELSE ParseIntFrom(s, i + 1, acc * 10 + DigitValue[s[i]])

ParseInt(text) == The({ParseIntFrom(s, 1, 0) : s \in {text}})

\* str(n) for n >= 0
RECURSIVE IntToStr(_)
IntToStr(n) ==
  IF n < 10 THEN <<DigitChar[n + 1]>>
  ELSE IntToStr(n \div 10) \o <<DigitChar[(n % 10) + 1]>>

\* s[i:] starts with sub
StartsAt(s, i, sub) ==
  /\ i + Len(sub) - 1 <= Len(s)
  /\ \A j \in 1..Len(sub) : s[i + j - 1] = sub[j]

\* str.find(sub, i - 1) + 1: the first index from i on where sub occurs, 0
\* when it does not
FindFrom(text, word, i) ==
  The({The({IF hits = {} THEN 0 ELSE Least(hits) :
              hits \in {{j \in i..Len(s) : StartsAt(s, j, sub)}}}) :
         s \in {text}, sub \in {word}})

Find(s, sub) == FindFrom(s, sub, 1)

\* sub in s
Contains(s, sub) == Find(s, sub) # 0

\* str.replace(old, new, count): the leftmost non-overlapping occurrences,
\* at most count of them (count < 0: all); old is never empty here
RECURSIVE ReplaceFrom(_, _, _, _, _)
ReplaceFrom(s, old, new, count, i) ==
  IF count = 0 THEN SubSeq(s, i, Len(s))
  ELSE The({IF at = 0 THEN SubSeq(s, i, Len(s))
            ELSE SubSeq(s, i, at - 1) \o new
                   \o ReplaceFrom(s, old, new, count - 1, at + Len(old)) :
              at \in {FindFrom(s, old, i)}})

ReplaceCount(text, old_text, new_text, count) ==
  The({ReplaceFrom(s, old, new, count, 1) :
         s \in {text}, old \in {old_text}, new \in {new_text}})

Replace(text, old_text, new_text) == ReplaceCount(text, old_text, new_text, -1)

\* str.strip(): from the first to the last character that is no whitespace
Strip(text) ==
  The({The({IF kept = {} THEN <<>> ELSE SubSeq(s, Least(kept), Greatest(kept)) :
              kept \in {{i \in 1..Len(s) : s[i] \notin Whitespace}}}) :
         s \in {text}})

\* ------------------------------------------------------------------------
\* The regular expressions of the source (module re)
\* ------------------------------------------------------------------------
\* A pattern is a sequence of elements:
\*   lit w   the literal text w, compared ignoring case (re.IGNORECASE)
\*   ws1     \s+          ws0   \s*
\*   not1    ([^c]+)      a capture group
\*   dig1    (\d+)        a capture group
\*   alt     (w1|w2|...)  a capture group of literal words
\*   wb      \b
\* In each pattern of the source the element after a repetition cannot match
\* a character the repetition matches, so the greedy match is the only one.

Lit(word) == <<[k |-> "lit", w |-> word]>>

Ws1 == <<[k |-> "ws1"]>>

Ws0 == <<[k |-> "ws0"]>>

Not1(ch, grp) == <<[k |-> "not1", c |-> ch, g |-> grp]>>

Dig1(grp) == <<[k |-> "dig1", g |-> grp]>>

Alt(ws, grp) == <<[k |-> "alt", words |-> ws, g |-> grp]>>

Wb == <<[k |-> "wb"]>>

NoMatch == [ok |-> FALSE]

NoGroups == [g \in 1..2 |-> <<0, 0>>]

\* the end (exclusive) of the longest run of characters of a class that
\* starts at i: the first position from i on that holds no such character
SpaceRun(s, i) ==
  Least({j \in i..(Len(s) + 1) : j > Len(s) \/ s[j] \notin Whitespace})

DigitRun(s, i) ==
  Least({j \in i..(Len(s) + 1) : j > Len(s) \/ s[j] \notin Digits})

NotCharRun(s, i, ch) ==
  Least({j \in i..(Len(s) + 1) : j > Len(s) \/ s[j] = ch})

StartsAtIgnoreCase(s, i, word) ==
  /\ i + Len(word) - 1 <= Len(s)
  /\ \A j \in 1..Len(word) : Up(s[i + j - 1]) = Up(word[j])

\* \b at i: between s[i-1] and s[i]
AtWordBoundary(s, i) ==
  LET before == i > 1 /\ IsWordChar(s[i - 1])
      after  == i <= Len(s) /\ IsWordChar(s[i])
  IN  before # after

\* the pattern's elements k.. matched at s[i..]; the groups found so far
RECURSIVE MatchFrom(_, _, _, _, _)
MatchFrom(pat, k, s, from, found) ==
  IF k > Len(pat) THEN [ok |-> TRUE, end |-> from, groups |-> found]
  ELSE The({
    CASE e.k = "lit" ->
           IF StartsAtIgnoreCase(s, i, e.w)
           THEN MatchFrom(pat, k + 1, s, i + Len(e.w), groups) ELSE NoMatch
      [] e.k = "ws1" ->
           LET j == SpaceRun(s, i) IN
           IF j > i THEN MatchFrom(pat, k + 1, s, j, groups) ELSE NoMatch
      [] e.k = "ws0" -> MatchFrom(pat, k + 1, s, SpaceRun(s, i), groups)
      [] e.k = "not1" ->
           LET j == NotCharRun(s, i, e.c) IN
           IF j > i
           THEN MatchFrom(pat, k + 1, s, j, [groups EXCEPT ![e.g] = <<i, j>>])
           ELSE NoMatch
      [] e.k = "dig1" ->
           LET j == DigitRun(s, i) IN
           IF j > i
           THEN MatchFrom(pat, k + 1, s, j, [groups EXCEPT ![e.g] = <<i, j>>])
           ELSE NoMatch
      [] e.k = "alt" ->
           LET hits == {w \in 1..Len(e.words) : StartsAtIgnoreCase(s, i, e.words[w])} IN
           IF hits = {} THEN NoMatch
           ELSE LET w == Least(hits)
                    j == i + Len(e.words[w])
                IN  MatchFrom(pat, k + 1, s, j, [groups EXCEPT ![e.g] = <<i, j>>])
      [] e.k = "wb" ->
           IF AtWordBoundary(s, i) THEN MatchFrom(pat, k + 1, s, i, groups)
           ELSE NoMatch
    : e \in {pat[k]}, i \in {from}, groups \in {found}})

\* re.search(pat, s) from position i on: the leftmost match, with its start
SearchFrom(pattern, text, i) ==
  The({The({IF starts = {} THEN NoMatch
            ELSE The({[ok |-> TRUE, start |-> Least(starts), end |-> m.end,
                       groups |-> m.groups] :
                        m \in {MatchFrom(pat, 1, s, Least(starts), NoGroups)}}) :
              starts \in {{j \in i..Len(s) : MatchFrom(pat, 1, s, j, NoGroups).ok}}}) :
         pat \in {pattern}, s \in {text}})

Search(pat, s) == SearchFrom(pat, s, 1)

\* match.group(g) and match.group(0)
Group(s, m, g) == SubSeq(s, m.groups[g][1], m.groups[g][2] - 1)

Group0(s, m) == SubSeq(s, m.start, m.end - 1)

\* ------------------------------------------------------------------------
\* Literal text of the source
\* ------------------------------------------------------------------------
W_WHERE == <<"W", "H", "E", "R", "E">>

W_AND == <<"A", "N", "D">>

W_AVG == <<"A", "V", "G">>

W_SUM == <<"S", "U", "M">>

W_COUNT == <<"C", "O", "U", "N", "T">>

W_LIMIT == <<"L", "I", "M", "I", "T">>

W_p_timestamp == <<"p", "_", "t", "i", "m", "e", "s", "t", "a", "m", "p">>

W_TRY_CAST == <<"(", "T", "R", "Y", "_", "C", "A", "S", "T", "(">>

W_AS_DOUBLE == <<" ", "A", "S", " ", "D", "O", "U", "B", "L", "E", ")", ")">>

W_select_from == <<"s", "e", "l", "e", "c", "t", " ", "*", " ", "f", "r", "o", "m", " ">>

W_limit_1 == <<" ", "l", "i", "m", "i", "t", " ", "1">>

W_SELECT_1 == <<"S", "E", "L", "E", "C", "T", " ", "1">>

W_10m == <<"1", "0", "m">>

W_now == <<"n", "o", "w">>

\* ------------------------------------------------------------------------
\* ParseableClient: the query rewriting of the table-scoped client
\* ------------------------------------------------------------------------

\* if '-' in table_name or ' ' in table_name or '.' in table_name: f'"{table_name}"'
_escape_table_name(table) ==
  IF \E i \in 1..Len(table) : table[i] \in {"-", " ", "."}
  THEN <<"\"">> \o table \o <<"\"">>
  ELSE table

\* r'(AVG|SUM|COUNT)\s*\(([^)]+)\)'
numeric_agg_pattern ==
  Alt(<<W_AVG, W_SUM, W_COUNT>>, 1) \o Ws0 \o Lit(<<"(">>) \o Not1(")", 2) \o Lit(<<")">>)

\* replace_agg(match), the replacement of one aggregate call
replace_agg(s, m) ==
  The({IF agg_func \in {W_AVG, W_SUM}
       THEN agg_func \o W_TRY_CAST \o field \o W_AS_DOUBLE
       ELSE agg_func \o <<"(">> \o field \o <<")">> :
         agg_func \in {Upper(Group(s, m, 1))}, field \in {Strip(Group(s, m, 2))}})

\* re.sub(numeric_agg_pattern, replace_agg, s) from position i on
RECURSIVE SubAggFrom(_, _)
SubAggFrom(s, i) ==
  The({IF ~m.ok THEN SubSeq(s, i, Len(s))
       ELSE SubSeq(s, i, m.start - 1) \o replace_agg(s, m) \o SubAggFrom(s, m.end) :
         m \in {SearchFrom(numeric_agg_pattern, s, i)}})

\* r'\bLIMIT\s+(\d+)\b'
limit_pattern == Wb \o Lit(W_LIMIT) \o Ws1 \o Dig1(1) \o Wb

\* re.sub(limit_pattern, '', s) from position i on
RECURSIVE SubLimitFrom(_, _)
SubLimitFrom(s, i) ==
  The({IF ~m.ok THEN SubSeq(s, i, Len(s))
       ELSE SubSeq(s, i, m.start - 1) \o SubLimitFrom(s, m.end) :
         m \in {SearchFrom(limit_pattern, s, i)}})

\* the cap of the appended LIMIT
DefaultLimit == 100

\* current_limit after "if current_limit is None or current_limit > 100";
\* is_none: no LIMIT clause was found
CappedLimit(is_none, current_limit) ==
  IF is_none \/ current_limit > DefaultLimit
  THEN DefaultLimit ELSE current_limit

\* the query without its LIMIT clauses, and the capped LIMIT appended
AppendLimit(modified_query, limit_match) ==
  LET current_limit == IF limit_match.ok
                       THEN ParseInt(Group(modified_query, limit_match, 1))
                       ELSE 0
      without_limit == IF limit_match.ok
                       THEN SubLimitFrom(modified_query, 1)
                       ELSE modified_query
  IN  Strip(without_limit) \o <<" ">> \o W_LIMIT \o <<" ">>
        \o IntToStr(CappedLimit(~limit_match.ok, current_limit))

_transform_query(query) ==
  The({The({AppendLimit(modified_query, limit_match) :
              limit_match \in {Search(limit_pattern, modified_query)}}) :
         modified_query \in {The({SubAggFrom(s, 1) : s \in {query}})}})

\* r"WHERE\s+p_timestamp\s*>=\s*'([^']+)'\s*AND\s+p_timestamp\s*<\s*'([^']+)'"
timestamp_pattern ==
  Lit(W_WHERE) \o Ws1 \o Lit(W_p_timestamp) \o Ws0 \o Lit(<<">", "=">>) \o Ws0
    \o Lit(<<"'">>) \o Not1("'", 1) \o Lit(<<"'">>) \o Ws0 \o Lit(W_AND) \o Ws1
    \o Lit(W_p_timestamp) \o Ws0 \o Lit(<<"<">>) \o Ws0
    \o Lit(<<"'">>) \o Not1("'", 2) \o Lit(<<"'">>)

\* a mutation of ToParseableTime: the first space alone is replaced
ToParseableTimeFirstSpace(literal) ==
  ReplaceCount(literal, <<" ">>, <<"T">>, 1) \o <<"Z">>

\* literal.replace(' ', 'T') + 'Z'
ToParseableTime(literal) == Replace(literal, <<" ">>, <<"T">>) \o <<"Z">>

\* query.replace(where_clause, ''), then the first 'AND' -> 'WHERE' if a
\* 'WHERE' is left in modified_query.upper()
RemoveTimeClause(query, where_clause) ==
  The({IF Contains(Upper(modified_query), W_WHERE)
       THEN ReplaceCount(modified_query, W_AND, W_WHERE, 1)
       ELSE modified_query :
         modified_query \in {Replace(query, where_clause, <<>>)}})

\* ParseableClient._extract_and_remove_time_conditions
ClientExtractTime(text) ==
  The({The({IF match.ok
            THEN [query |-> Strip(RemoveTimeClause(query, Group0(query, match))),
                  start |-> ToParseableTime(Group(query, match, 1)),
                  end   |-> ToParseableTime(Group(query, match, 2))]
            ELSE [query |-> Strip(query), start |-> W_10m, end |-> W_now] :
              match \in {Search(timestamp_pattern, query)}}) :
         query \in {text}})

\* ParseableCursor._extract_and_remove_time_conditions of the connector:
\* start and end stay None without a match
CursorExtractTime(text) ==
  The({The({IF match.ok
            THEN [query |-> Strip(RemoveTimeClause(query, Group0(query, match))),
                  start |-> ToParseableTime(Group(query, match, 1)),
                  end   |-> ToParseableTime(Group(query, match, 2))]
            ELSE [query |-> Strip(query), start |-> None, end |-> None] :
              match \in {Search(timestamp_pattern, query)}}) :
         query \in {text}})

\* the table reference of the transmitted query: quoted unless the quoted
\* form is found somewhere in the query
QuoteTable(table, text) ==
  The({IF ~(Find(modified_query, <<"\"">> \o table \o <<"\"">>) >= 1)
       THEN Replace(modified_query, table, _escape_table_name(table))
       ELSE modified_query :
         modified_query \in {text}})

\* ParseableClient.execute_query up to the request: the JSON body and the
\* X-P-Stream header
ClientRequest(table, query) ==
  The({[query     |-> QuoteTable(table, extracted.query),
        startTime |-> extracted.start,
        endTime   |-> extracted.end,
        stream    |-> table] :
         extracted \in {ClientExtractTime(_transform_query(query))}})

\* ------------------------------------------------------------------------
\* The inputs: query texts, bound table names, server responses
\* ------------------------------------------------------------------------
\* A query is put together from parts, so that what a rewriting has to
\* produce is known from the parts and not from the rewriting itself:
\*   pad  SELECT <sel> FROM <ref><where><more><lim>  pad

LowerOf(c) ==
  IF \E a \in DOMAIN UpperOf : UpperOf[a] = c
  THEN CHOOSE a \in DOMAIN UpperOf : UpperOf[a] = c
  ELSE c

Lower(s) == [i \in 1..Len(s) |-> LowerOf(s[i])]

Sp == <<" ">>

Nl == <<"\n">>

Quote(literal) == <<"'">> \o literal \o <<"'">>

DoubleQuote(name) == <<"\"">> \o name \o <<"\"">>

W_SELECT == <<"S", "E", "L", "E", "C", "T">>

W_FROM == <<"F", "R", "O", "M">>

W_OR == <<"O", "R">>

W_OFFSET == <<"O", "F", "F", "S", "E", "T">>

W_level == <<"l", " ", "=", " ", "'", "e", "'">>

W_logs == <<"l", "o", "g", "s">>

Ge == <<">", "=">>

Lt == <<"<">>

\* the time literals of the queries: with one space, without, with two
TimeLiterals ==
  [a |-> <<"1", " ", "2">>, b |-> <<"3">>, c |-> <<"4", " ", "5", " ", "6">>]

\* the bound table names of the table-scoped connection; None: no database
\* in the connection string
TableNames ==
  {None, <<>>, W_logs, <<"m", "-", "s">>, <<"m", " ", "s">>, <<"m", ".", "s">>}

\* the stream a query names: the bound table where there is one
StreamOf(table) == IF table \in {None, <<>>} THEN W_logs ELSE table

SelText(q, table) ==
  CASE q.sel = "star"     -> <<"*">>
    [] q.sel = "col"      -> <<"x">>
    [] q.sel = "avg"      -> W_AVG \o <<"(", "x", ")">>
    [] q.sel = "avg_lc"   -> Lower(W_AVG) \o <<"(", "x", ")">>
    [] q.sel = "sum_sp"   -> Lower(W_SUM) \o <<" ", "(", " ", "x", " ", ")">>
    [] q.sel = "count"    -> W_COUNT \o <<"(", "x", ")">>
    [] q.sel = "count_lc" -> Lower(W_COUNT) \o <<"(", "x", ")">>
    [] q.sel = "count_sp" -> W_COUNT \o <<"(", " ", "x", " ", ")">>
    [] q.sel = "qcol"     -> DoubleQuote(StreamOf(table)) \o <<".", "x">>

RefText(q, table) ==
  CASE q.ref = "plain"  -> StreamOf(table)
    [] q.ref = "quoted" -> DoubleQuote(StreamOf(table))
    [] q.ref = "sub"    -> <<"(">> \o Lower(W_SELECT) \o <<" ", "x", " ">> \o Lower(W_FROM)
                             \o Sp \o StreamOf(table) \o Sp \o Lower(W_LIMIT)
                             \o <<" ", "7", ")", " ", "s">>

\* the recognized time-range shape, from WHERE to the closing quote
ShapeStyles == {"upper", "lower", "newline"}

ClauseText(q) ==
  LET A == Quote(TimeLiterals[q.A])
      B == Quote(TimeLiterals[q.B])
  IN CASE q.where = "upper" ->
            W_WHERE \o Sp \o W_p_timestamp \o Sp \o Ge \o Sp \o A \o Sp \o W_AND \o Sp
              \o W_p_timestamp \o Sp \o Lt \o Sp \o B
       [] q.where = "lower" ->
            Lower(W_WHERE) \o Sp \o W_p_timestamp \o Ge \o A \o Sp \o Lower(W_AND) \o Sp
              \o W_p_timestamp \o Lt \o B
       [] q.where = "newline" ->
            W_WHERE \o Nl \o W_p_timestamp \o Sp \o Ge \o Sp \o A \o Nl \o W_AND \o Sp
              \o W_p_timestamp \o Sp \o Lt \o Sp \o B

HasShape(q) == q.where \in ShapeStyles

WhereText(q) ==
  LET A == Quote(TimeLiterals[q.A])
      B == Quote(TimeLiterals[q.B])
  IN CASE q.where = "none"  -> <<>>
       [] HasShape(q)       -> Sp \o ClauseText(q)
       [] q.where = "level" -> Sp \o W_WHERE \o Sp \o W_level
       [] q.where = "reordered" ->
            Sp \o W_WHERE \o Sp \o W_p_timestamp \o Sp \o Lt \o Sp \o B \o Sp \o W_AND \o Sp
              \o W_p_timestamp \o Sp \o Ge \o Sp \o A
       [] q.where = "paren" ->
            Sp \o W_WHERE \o <<" ", "(">> \o W_p_timestamp \o Sp \o Ge \o Sp \o A \o Sp
              \o W_AND \o Sp \o W_p_timestamp \o Sp \o Lt \o Sp \o B \o <<")">>
       [] q.where = "or" ->
            Sp \o W_WHERE \o Sp \o W_p_timestamp \o Sp \o Ge \o Sp \o A \o Sp \o W_OR \o Sp
              \o W_p_timestamp \o Sp \o Lt \o Sp \o B

\* a further condition, joined by AND
MoreText(q) ==
  CASE q.more = "none"   -> <<>>
    [] q.more = "and"    -> Sp \o W_AND \o Sp \o W_level
    [] q.more = "and_lc" -> Sp \o Lower(W_AND) \o Sp \o W_level

\* the LIMIT clauses: text, and the number the text stands for
LimitKinds == {"none", "5", "lc500", "100", "101", "05", "offset", "0"}

LimText(q) ==
  CASE q.lim = "none"   -> <<>>
    [] q.lim = "5"      -> Sp \o W_LIMIT \o <<" ", "5">>
    [] q.lim = "lc500"  -> Sp \o Lower(W_LIMIT) \o <<" ", "5", "0", "0">>
    [] q.lim = "100"    -> Sp \o W_LIMIT \o <<" ", "1", "0", "0">>
    [] q.lim = "101"    -> Sp \o W_LIMIT \o <<"\n", "1", "0", "1">>
    [] q.lim = "05"     -> Sp \o W_LIMIT \o <<" ", "0", "5">>
    [] q.lim = "offset" -> Sp \o W_LIMIT \o <<" ", "5", " ">> \o W_OFFSET \o <<" ", "2">>
    [] q.lim = "0"      -> Sp \o W_LIMIT \o <<" ", "0">>

LimValue(q) ==
  CASE q.lim = "5"      -> 5
    [] q.lim = "lc500"  -> 500
    [] q.lim = "100"    -> 100
    [] q.lim = "101"    -> 101
    [] q.lim = "05"     -> 5
    [] q.lim = "offset" -> 5
    [] q.lim = "0"      -> 0

\* the number of LIMIT clauses of the query
LimitCount(q) ==
  (IF q.ref = "sub" THEN 1 ELSE 0) + (IF q.lim = "none" THEN 0 ELSE 1)

PadText(q) == IF q.pad THEN <<"\n", " ">> ELSE <<>>

\* the text before and after the WHERE clause
BeforeWhere(q, table) ==
  PadText(q) \o W_SELECT \o Sp \o SelText(q, table) \o Sp \o W_FROM \o Sp \o RefText(q, table)

AfterWhere(q) == MoreText(q) \o LimText(q) \o PadText(q)

QueryText(q, table) ==
  IF q.sel = "one" THEN PadText(q) \o W_SELECT_1 \o PadText(q)
  ELSE IF q.sel = "one_lc" THEN PadText(q) \o Lower(W_SELECT_1) \o PadText(q)
  ELSE BeforeWhere(q, table) \o WhereText(q) \o AfterWhere(q)

Query(sel, ref, where, A, B, more, lim, pad) ==
  [sel |-> sel, ref |-> ref, where |-> where, A |-> A, B |-> B, more |-> more,
   lim |-> lim, pad |-> pad]

\* the liveness query, as written and in lower case with padding
PingQueries ==
  {Query("one", "plain", "none", "a", "c", "none", "none", FALSE),
   Query("one_lc", "plain", "none", "a", "c", "none", "none", TRUE)}

\* queries with the recognized time-range shape
ShapeQueries ==
  {Query("star", "plain", w, A, "c", more, lim, FALSE) :
     w \in ShapeStyles, A \in {"a", "b"}, more \in {"none", "and", "and_lc"},
     lim \in {"none", "5"}}

\* queries without it: no WHERE, another WHERE, reordered operands,
\* parentheses, OR
OtherWhereQueries ==
  {Query("star", "plain", w, "a", "c", more, "none", pad) :
     w \in {"none", "level", "reordered", "paren", "or"}, more \in {"none", "and"},
     pad \in BOOLEAN}

\* queries with aggregate calls
AggregateQueries ==
  {Query(sel, "plain", "none", "a", "c", "none", lim, FALSE) :
     sel \in {"col", "avg", "avg_lc", "sum_sp", "count", "count_lc", "count_sp"},
     lim \in {"none", "lc500"}}

\* queries with no, one and two LIMIT clauses
LimitQueries ==
  {Query("star", ref, "none", "a", "c", "none", lim, pad) :
     ref \in {"plain", "sub"}, lim \in LimitKinds, pad \in BOOLEAN}

\* queries that name the bound table quoted, unquoted and both ways
TableQueries ==
  {Query(sel, ref, w, "a", "c", "none", "none", FALSE) :
     sel \in {"star", "qcol"}, ref \in {"plain", "quoted"}, w \in {"none", "upper"}}

Queries ==
  PingQueries \cup ShapeQueries \cup OtherWhereQueries \cup AggregateQueries
    \cup LimitQueries \cup TableQueries

\* the rows a server returns: ordered mappings from column name to value,
\* as sequences of <<name, value>>; the second has the keys of the first in
\* the other order
RowValues ==
  {<<<<"a", 1>>, <<"b", 2>>>>, <<<<"b", 3>>, <<"a", 4>>>>}

\* the longest row sequence of a response
MaxRows == 2

\* a list element that is no object: the number 1, kept apart from the rows
\* by its shape
ScalarRow == <<<<1>>>>

\* the row has keys() and values()
IsObject(row) == \A i \in 1..Len(row) : Len(row[i]) = 2

RowLists == UNION {[1..n -> RowValues] : n \in 0..MaxRows}

\* what response.json() gives: a list of rows, a list of values that are no
\* objects, an object, or no JSON at all
JsonValues ==
  {[t |-> "rows", v |-> rs] : rs \in RowLists}
    \cup {[t |-> "scalars", v |-> <<ScalarRow>>], [t |-> "object", v |-> <<>>],
          [t |-> "malformed", v |-> <<>>]}

\* the status codes of the responses, and their reason phrases
SuccessStatuses == {200, 201}

ErrorStatuses == {404, 500}

ReasonOf(status) ==
  CASE status = 404 -> "Not Found"
    [] status = 500 -> "Internal Server Error"
    [] OTHER        -> "OK"

\* the bodies of the error responses
ErrorBodies == {"internal error", "stream not found"}

\* no response at all: requests raises a RequestException
TransportFailure == [kind |-> "failure", status |-> 0, text |-> "", json |-> [t |-> "malformed", v |-> <<>>]]

Responses ==
  {TransportFailure}
    \cup {[kind |-> "http", status |-> st, text |-> b, json |-> [t |-> "malformed", v |-> <<>>]] :
            st \in ErrorStatuses, b \in ErrorBodies}
    \cup {[kind |-> "http", status |-> st, text |-> "json", json |-> j] :
            st \in SuccessStatuses, j \in JsonValues}

\* the parameters of execute: none, or a time range
NoParameters == [start_time |-> None, end_time |-> None]

ParameterValues ==
  {NoParameters,
   [start_time |-> <<"5", "m">>, end_time |-> None],
   [start_time |-> None, end_time |-> <<"1", "m">>]}

\* the queries every response is tried with
ResponseQueries ==
  {Query("one", "plain", "none", "a", "c", "none", "none", FALSE),
   Query("star", "plain", "none", "a", "c", "none", "none", FALSE),
   Query("star", "plain", "upper", "a", "c", "none", "none", FALSE)}

\* the response every query is tried with
OneRow == [kind |-> "http", status |-> 200, text |-> "json",
           json |-> [t |-> "rows", v |-> <<<<<<"a", 1>>, <<"b", 2>>>>>>]]

\* the calls of execute, (operation, parameters, response of the server):
\* a few queries with every response; the root cursor alone reads the
\* parameters
ExecuteInputs(implementation) ==
  {[operation |-> q, parameters |-> NoParameters, response |-> r] :
     q \in ResponseQueries, r \in Responses}
    \cup {[operation |-> q, parameters |-> ps, response |-> OneRow] :
            q \in IF implementation = "root" THEN ResponseQueries ELSE {},
            ps \in ParameterValues}

\* every query with one response
RewriteInputs ==
  {[operation |-> q, parameters |-> NoParameters, response |-> OneRow] : q \in Queries}

\* ------------------------------------------------------------------------
\* The state
\* ------------------------------------------------------------------------
VARIABLES
  impl,         \* the implementation in use: "root", "connector", "dialect"
  table_name,   \* ParseableConnection.table_name (dialect)
  closed,       \* ParseableConnection._closed (dialect)
  rows,         \* ParseableCursor._rows
  rowcount,     \* ParseableCursor._rowcount
  description,  \* ParseableCursor.description
  last,         \* the most recent call: its arguments, result and error
  sent          \* the HTTP requests the most recent call sent

cursor == <<rows, rowcount, description>>

vars == <<impl, table_name, closed, rows, rowcount, description, last, sent>>

Implementations == {"root", "connector", "dialect"}

\* description is None
NoDescription == [none |-> TRUE]

\* description is a list of 7-tuples (name, type_code, None, ...)
Description(cols) == [cols |-> cols]

\* the values a call returns
NoneValue == [t |-> "None", v |-> <<>>]

IntValue(n) == [t |-> "int", v |-> n]

TupleValue(values) == [t |-> "tuple", v |-> values]

ListValue(tuples) == [t |-> "list", v |-> tuples]

\* tuple(row.values())
Values(row) == [i \in 1..Len(row) |-> row[i][2]]

\* row.keys()
Keys(row) == [i \in 1..Len(row) |-> row[i][1]]

\* [tuple(row.values()) for row in rs]
Tuples(rs) == [i \in 1..Len(rs) |-> Values(rs[i])]

\* what execute computed on its way to the request: the text of the
\* operation, the result of _transform_query (dialect), the result of
\* _extract_and_remove_time_conditions (connector, dialect)
NoTrace == [text |-> <<>>, transformed |-> <<>>,
            extracted |-> [query |-> <<>>, start |-> None, end |-> None]]

\* the record of a call that returned
Returned(op, arg, value) ==
  [op |-> op, arg |-> arg, ret |-> value, err |-> "none", msg |-> <<>>,
   trace |-> NoTrace]

\* the record of a call that raised
Raised(op, arg, error, message) ==
  [op |-> op, arg |-> arg, ret |-> NoneValue, err |-> error, msg |-> message,
   trace |-> NoTrace]

WithTrace(call, trace) == [call EXCEPT !.trace = trace]

\* a call without arguments; the size of fetchmany() without argument
NoArg == [operation |-> Query("none", "plain", "none", "a", "c", "none", "none", FALSE),
          parameters |-> NoParameters, response |-> TransportFailure,
          size |-> [given |-> FALSE, n |-> 0]]

SizeArg(size) == [NoArg EXCEPT !.size = [given |-> TRUE, n |-> size]]

ExecuteArg(inp) ==
  [operation |-> inp.operation, parameters |-> inp.parameters,
   response |-> inp.response, size |-> NoArg.size]

\* ParseableCursor.__init__: _rowcount is -1 in the dialect, 0 elsewhere
InitialRowcount(implementation) == IF implementation = "dialect" THEN -1 ELSE 0

Init ==
  /\ impl \in Implementations
  /\ table_name \in IF impl = "dialect" THEN TableNames ELSE {None}
  /\ closed = FALSE
  /\ rows = <<>>
  /\ rowcount = InitialRowcount(impl)
  /\ description = NoDescription
  /\ last = Returned("cursor", NoArg, NoneValue)
  /\ sent = <<>>

\* a mutation of Outcome: the request of a call that raises is sent again
OutcomeRetried(rs, rc, desc, call, requests) ==
  [rows |-> rs, rowcount |-> rc, description |-> desc, last |-> call,
   sent |-> IF call.err = "none" THEN requests ELSE requests \o requests]

\* what a call leaves behind: the cursor, the record of the call, the
\* requests it sent
Outcome(rs, rc, desc, call, requests) ==
  [rows |-> rs, rowcount |-> rc, description |-> desc, last |-> call, sent |-> requests]

\* ------------------------------------------------------------------------
\* execute of the root and the connector cursor
\* ------------------------------------------------------------------------

\* "if response.status_code != 200: raise" and what follows the response;
\* arg, trace, request: the call so far
ProcessResponse(arg, trace, request) ==
  LET resp   == arg.response
      result == resp.json
      raise(error, message) ==
        Outcome(rows, rowcount, description,
                WithTrace(Raised("execute", arg, error, message), trace), <<request>>)
  IN
  CASE resp.kind = "failure" -> raise("ConnectionError", <<"connection failure">>)
    [] resp.kind = "http" /\ resp.status # 200 ->
         raise("DatabaseError", <<"Query failed: ", resp.text>>)
    [] resp.kind = "http" /\ resp.status = 200 /\ result.t = "malformed" ->
         raise("JSONDecodeError", <<"Expecting value">>)
    [] resp.kind = "http" /\ resp.status = 200 /\ result.t = "rows" /\ result.v = <<>> ->
         \* if not result
         Outcome(<<>>, 0, NoDescription,
                 WithTrace(Returned("execute", arg, NoneValue), trace), <<request>>)
    [] resp.kind = "http" /\ resp.status = 200 /\ result.t = "object" ->
         \* first_row = result[0] on a dict
         raise("KeyError", <<"0">>)
    [] resp.kind = "http" /\ resp.status = 200 /\ result.t = "scalars" ->
         \* self.description = [] is done when first_row.keys() raises
         Outcome(rows, rowcount, Description(<<>>),
                 WithTrace(Raised("execute", arg, "AttributeError",
                                  <<"'int' object has no attribute 'keys'">>), trace),
                 <<request>>)
    [] resp.kind = "http" /\ resp.status = 200 /\ result.t = "rows" /\ result.v # <<>> ->
         Outcome(result.v, Len(result.v),
                 Description([i \in 1..Len(result.v[1]) |->
                                [name |-> Keys(result.v[1])[i], type_code |-> "None"]]),
                 WithTrace(Returned("execute", arg, NoneValue), trace), <<request>>)

\* the request of the root cursor: the operation as given, the time range of
\* the parameters or the defaults
RootRequest(text, parameters) ==
  [query     |-> text,
   startTime |-> IF parameters.start_time # None THEN parameters.start_time ELSE W_10m,
   endTime   |-> IF parameters.end_time # None THEN parameters.end_time ELSE W_now,
   stream    |-> None]

\* the text of every query, computed once
RootTexts == [q \in Queries |-> QueryText(q, None)]

RootExecute(arg) ==
  LET text == RootTexts[arg.operation] IN
  ProcessResponse(arg, [NoTrace EXCEPT !.text = text], RootRequest(text, arg.parameters))

\* the request of the connector cursor: the query without its time range,
\* "start_time or '10m'", "end_time or 'now'"
ConnectorRequest(extracted) ==
  [query     |-> extracted.query,
   startTime |-> Or(extracted.start, W_10m),
   endTime   |-> Or(extracted.end, W_now),
   stream    |-> None]

\* execute up to the request, computed once for every query
ConnectorTraces ==
  [q \in Queries |->
     The({[trace   |-> [text |-> RootTexts[q], transformed |-> <<>>,
                        extracted |-> extracted],
           request |-> ConnectorRequest(extracted)] :
            extracted \in {CursorExtractTime(RootTexts[q])}})]

ConnectorExecute(arg) ==
  LET t == ConnectorTraces[arg.operation] IN
  ProcessResponse(arg, t.trace, t.request)

\* ------------------------------------------------------------------------
\* execute of the dialect cursor
\* ------------------------------------------------------------------------

StatusText(status) ==
  CASE status = 200 -> "200" [] status = 201 -> "201"
    [] status = 404 -> "404" [] status = 500 -> "500"

\* str(e) of the HTTPError of response.raise_for_status():
\* "<status> Client|Server Error: <reason> for url: <url>"
HTTPErrorMessage(status) ==
  <<StatusText(status),
    IF status < 500 THEN " Client Error: " ELSE " Server Error: ",
    ReasonOf(status), " for url: ", "/api/v1/query">>

\* a mutation of ClientResponse: a body that is no JSON is read as an empty
\* result
ClientResponseUnparsed(resp) ==
  CASE resp.kind = "failure" ->
         [raised |-> TRUE, msg |-> <<"Query execution failed: ", "connection failure">>]
    [] resp.kind = "http" /\ resp.status >= 400 /\ resp.status < 600 ->
         [raised |-> TRUE,
          msg    |-> <<"Query execution failed: ">> \o HTTPErrorMessage(resp.status)]
    [] OTHER -> [raised |-> FALSE, msg |-> <<>>]

\* ParseableClient.execute_query after the request was sent: the parsed
\* body, or the DatabaseError made of the RequestException (the
\* JSONDecodeError of response.json() is one; where it is none, execute
\* makes the DatabaseError of it)
ClientResponse(resp) ==
  CASE resp.kind = "failure" ->
         [raised |-> TRUE, msg |-> <<"Query execution failed: ", "connection failure">>]
    [] resp.kind = "http" /\ resp.status >= 400 /\ resp.status < 600 ->
         [raised |-> TRUE,
          msg    |-> <<"Query execution failed: ">> \o HTTPErrorMessage(resp.status)]
    [] resp.kind = "http" /\ resp.status < 400 /\ resp.json.t = "malformed" ->
         [raised |-> TRUE, msg |-> <<"Query execution failed: ", "Expecting value">>]
    [] OTHER -> [raised |-> FALSE, msg |-> <<>>]

\* f"select * from {self.connection.table_name} limit 1"
PingQueryText(table) == W_select_from \o table \o W_limit_1

\* the tables a dialect cursor sends requests for
BoundTables == TableNames \ {None, <<>>}

\* operation.strip().upper() == "SELECT 1"
IsSelect1(text) == Upper(Strip(text)) = W_SELECT_1

\* the query execute hands to the client: the ping query in place of
\* SELECT 1
ClientQuery(table, text) == IF IsSelect1(text) THEN PingQueryText(table) ELSE text

\* what execute_query computes on its way to the request
ClientTrace(table, text, query) ==
  The({[ping    |-> query # text,
        trace   |-> [text |-> text, transformed |-> transformed,
                     extracted |-> ClientExtractTime(transformed)],
        request |-> ClientRequest(table, query)] :
         transformed \in {_transform_query(query)}})

\* execute up to the request, computed once for every bound table and query
ClientTraces ==
  [t \in BoundTables, q \in Queries |->
     The({The({ClientTrace(t, text, query) : query \in {ClientQuery(t, text)}}) :
            text \in {QueryText(q, t)}})]

\* a mutation of NoTableOutcome: the cursor is reset before the raise
NoTableResets(arg) ==
  Outcome(<<>>, 0, NoDescription,
          Raised("execute", arg, "DatabaseError",
                 <<"No table name specified in connection string">>), <<>>)

\* raise DatabaseError("No table name specified in connection string")
NoTableOutcome(arg) ==
  Outcome(rows, rowcount, description,
          Raised("execute", arg, "DatabaseError",
                 <<"No table name specified in connection string">>), <<>>)

DialectExecute(arg) ==
  IF table_name \in {None, <<>>}
  THEN \* if not self.connection.table_name
       NoTableOutcome(arg)
  ELSE
  LET t      == ClientTraces[table_name, arg.operation]
      ping   == t.ping
      trace  == t.trace
      answer == ClientResponse(arg.response)
      result == arg.response.json
      raise(rs, rc, message) ==
        \* except Exception as e: raise DatabaseError(str(e))
        Outcome(rs, rc, description,
                WithTrace(Raised("execute", arg, "DatabaseError", message), trace),
                <<t.request>>)
      return(rs, rc, desc) ==
        Outcome(rs, rc, desc, WithTrace(Returned("execute", arg, IntValue(rc)), trace),
                <<t.request>>)
  IN
  CASE answer.raised -> raise(rows, rowcount, answer.msg)
    [] ~answer.raised /\ ping ->
         return(<<<<<<"result", 1>>>>>>, 1,
                Description(<<[name |-> "result", type_code |-> "INTEGER"]>>))
    [] ~answer.raised /\ ~ping /\ result.t = "rows" /\ result.v # <<>> ->
         return(result.v, Len(result.v),
                Description([i \in 1..Len(result.v[1]) |->
                               [name |-> Keys(result.v[1])[i], type_code |-> "VARCHAR"]]))
    [] ~answer.raised /\ ~ping /\ result.t = "scalars" ->
         \* _rows and _rowcount are set when first_row.keys() raises
         raise(result.v, Len(result.v), <<"'int' object has no attribute 'keys'">>)
    [] OTHER ->
         \* "if result and isinstance(result, list)" is false: an empty list,
         \* an object
         return(rows, rowcount, description)

ExecuteOutcome(arg) ==
  CASE impl = "root"      -> RootExecute(arg)
    [] impl = "connector" -> ConnectorExecute(arg)
    [] impl = "dialect"   -> DialectExecute(arg)

\* ------------------------------------------------------------------------
\* The calls
\* ------------------------------------------------------------------------

Apply(out) ==
  /\ rows' = out.rows
  /\ rowcount' = out.rowcount
  /\ description' = out.description
  /\ last' = out.last
  /\ sent' = out.sent
  /\ UNCHANGED <<impl, table_name, closed>>

\* cursor.execute(operation, parameters)
Execute ==
  \E inp \in ExecuteInputs(impl) : Apply(ExecuteOutcome(ExecuteArg(inp)))

\* cursor.execute(operation) with every query text
ExecuteQuery ==
  \E inp \in RewriteInputs : Apply(ExecuteOutcome(ExecuteArg(inp)))

\* cursor.executemany(operation, seq_of_parameters): the dialect cursor
\* defines no such method
ExecuteManyOutcome(arg) ==
  IF impl = "dialect"
  THEN Outcome(rows, rowcount, description,
               Raised("executemany", arg, "AttributeError",
                      <<"'ParseableCursor' object has no attribute 'executemany'">>), <<>>)
  ELSE Outcome(rows, rowcount, description,
               Raised("executemany", arg, "NotImplementedError",
                      <<"executemany is not supported">>), <<>>)

ExecuteMany ==
  \E q \in ResponseQueries :
    Apply(ExecuteManyOutcome([NoArg EXCEPT !.operation = q]))

NoValues == <<"'int' object has no attribute 'values'">>

\* a mutation of FetchOneOutcome: pop(0) without the check for an empty _rows
FetchOneUnchecked ==
  CASE rows = <<>> ->
         Outcome(rows, rowcount, description,
                 Raised("fetchone", NoArg, "IndexError", <<"pop from empty list">>), <<>>)
    [] rows # <<>> /\ IsObject(Head(rows)) ->
         Outcome(Tail(rows), rowcount, description,
                 Returned("fetchone", NoArg, TupleValue(Values(Head(rows)))), <<>>)
    [] OTHER ->
         Outcome(Tail(rows), rowcount, description,
                 Raised("fetchone", NoArg, "AttributeError", NoValues), <<>>)

\* cursor.fetchone(): pop(0) is done when values() raises
FetchOneOutcome ==
  CASE rows = <<>> ->
         Outcome(rows, rowcount, description, Returned("fetchone", NoArg, NoneValue), <<>>)
    [] rows # <<>> /\ IsObject(Head(rows)) ->
         Outcome(Tail(rows), rowcount, description,
                 Returned("fetchone", NoArg, TupleValue(Values(Head(rows)))), <<>>)
    [] OTHER ->
         Outcome(Tail(rows), rowcount, description,
                 Raised("fetchone", NoArg, "AttributeError", NoValues), <<>>)

FetchOne == Apply(FetchOneOutcome)

\* cursor.fetchall(): the dialect cursor empties _rows, the others do not
FetchAllOutcome ==
  IF \A i \in 1..Len(rows) : IsObject(rows[i])
  THEN Outcome(IF impl = "dialect" THEN <<>> ELSE rows, rowcount, description,
               Returned("fetchall", NoArg, ListValue(Tuples(rows))), <<>>)
  ELSE Outcome(rows, rowcount, description,
               Raised("fetchall", NoArg, "AttributeError", NoValues), <<>>)

FetchAll == Apply(FetchAllOutcome)

\* the slice bounds of Python: rs[:size] and rs[size:]
SliceEnd(rs, size) ==
  IF size >= 0 THEN (IF size < Len(rs) THEN size ELSE Len(rs))
  ELSE (IF Len(rs) + size > 0 THEN Len(rs) + size ELSE 0)

\* the default size of fetchmany
arraysize == 1

\* cursor.fetchmany(size): the dialect cursor defines no such method
FetchManyOutcome(arg) ==
  IF impl = "dialect"
  THEN Outcome(rows, rowcount, description,
               Raised("fetchmany", arg, "AttributeError",
                      <<"'ParseableCursor' object has no attribute 'fetchmany'">>), <<>>)
  ELSE \* _rows of these cursors holds objects only
       LET size == IF arg.size.given THEN arg.size.n ELSE arraysize
           cut  == SliceEnd(rows, size)
       IN  Outcome(SubSeq(rows, cut + 1, Len(rows)), rowcount, description,
                   Returned("fetchmany", arg, ListValue(Tuples(SubSeq(rows, 1, cut)))),
                   <<>>)

\* the sizes fetchmany is called with
MaxSize == 2

FetchMany ==
  \E arg \in {NoArg} \cup {SizeArg(n) : n \in -1..MaxSize} : Apply(FetchManyOutcome(arg))

\* cursor.close()
CloseOutcome ==
  Outcome(<<>>, rowcount, description, Returned("close", NoArg, NoneValue), <<>>)

Close == Apply(CloseOutcome)

\* connection.close(): the dialect connection sets _closed, the others
\* do nothing
ConnectionClose ==
  /\ closed' = (IF impl = "dialect" THEN TRUE ELSE closed)
  /\ last' = Returned("connection.close", NoArg, NoneValue)
  /\ sent' = <<>>
  /\ UNCHANGED <<impl, table_name, rows, rowcount, description>>

\* connection.cursor(): a new cursor, that the calls from now on go to;
\* InterfaceError on a closed dialect connection
ConnectionCursor ==
  IF closed
  THEN /\ last' = Raised("connection.cursor", NoArg, "InterfaceError",
                         <<"Connection is closed">>)
       /\ sent' = <<>>
       /\ UNCHANGED <<impl, table_name, closed, rows, rowcount, description>>
  ELSE /\ rows' = <<>>
       /\ rowcount' = InitialRowcount(impl)
       /\ description' = NoDescription
       /\ last' = Returned("connection.cursor", NoArg, NoneValue)
       /\ sent' = <<>>
       /\ UNCHANGED <<impl, table_name, closed>>

\* ------------------------------------------------------------------------
\* do_ping of the dialects
\* ------------------------------------------------------------------------

\* 'SELECT * FROM "adheip" LIMIT 1', the query the root and the connector
\* dialect ping with
W_adheip ==
  <<"S", "E", "L", "E", "C", "T", " ", "*", " ", "F", "R", "O", "M", " ",
    "\"", "a", "d", "h", "e", "i", "p", "\"", " ", "L", "I", "M", "I", "T", " ", "1">>

BoolValue(b) == [t |-> "bool", v |-> b]

\* the argument of do_ping: the response the server gives to its request
PingArg(resp) == [NoArg EXCEPT !.response = resp]

\* execute of the connector cursor up to the request, for the query of
\* do_ping
ConnectorPingTrace ==
  The({[trace   |-> [text |-> W_adheip, transformed |-> <<>>, extracted |-> extracted],
        request |-> ConnectorRequest(extracted)] :
         extracted \in {CursorExtractTime(W_adheip)}})

\* "SELECT 1", the query the dialect of parseable_dialect.py pings with
Select1 == Query("one", "plain", "none", "a", "c", "none", "none", FALSE)

\* cursor.execute(...) of do_ping. What execute raises and sends does not
\* depend on what the cursor holds.
PingExecute(resp) ==
  CASE impl = "dialect"   -> DialectExecute([PingArg(resp) EXCEPT !.operation = Select1])
    [] impl = "root"      ->
         ProcessResponse(PingArg(resp), [NoTrace EXCEPT !.text = W_adheip],
                         RootRequest(W_adheip, NoParameters))
    [] impl = "connector" ->
         ProcessResponse(PingArg(resp), ConnectorPingTrace.trace,
                         ConnectorPingTrace.request)

\* the steps of do_ping up to the first that raises: cursor(), execute(),
\* and in the dialect of parseable_dialect.py fetchone()
PingSteps(resp) ==
  The({IF closed
       THEN [err |-> "InterfaceError", msg |-> <<"Connection is closed">>, sent |-> <<>>]
       ELSE IF out.last.err # "none"
       THEN [err |-> out.last.err, msg |-> out.last.msg, sent |-> out.sent]
       ELSE IF impl = "dialect" /\ out.rows # <<>> /\ ~IsObject(Head(out.rows))
       THEN [err |-> "AttributeError", msg |-> NoValues, sent |-> out.sent]
       ELSE [err |-> "none", msg |-> <<>>, sent |-> out.sent] :
         out \in {PingExecute(resp)}})

\* a mutation of DoPingOutcome: the steps without the try ... except
DoPingUnguarded(resp) ==
  The({[last |-> IF steps.err = "none"
                 THEN Returned("do_ping", PingArg(resp), BoolValue(TRUE))
                 ELSE Raised("do_ping", PingArg(resp), steps.err, steps.msg),
        sent |-> steps.sent] :
         steps \in {PingSteps(resp)}})

\* do_ping: True when no step raised, False when one did
DoPingOutcome(resp) ==
  The({[last |-> Returned("do_ping", PingArg(resp), BoolValue(steps.err = "none")),
        sent |-> steps.sent] :
         steps \in {PingSteps(resp)}})

\* dialect.do_ping(connection): the cursor it opens is its own, the cursor the
\* other calls go to is left alone; the responses are those of one row at
\* most
DoPing ==
  \E resp \in {r \in Responses : Len(r.json.v) <= 1} : \E out \in {DoPingOutcome(resp)} :
    /\ last' = out.last
    /\ sent' = out.sent
    /\ UNCHANGED <<impl, table_name, closed, rows, rowcount, description>>

Next ==
  \/ Execute
  \/ ExecuteMany
  \/ FetchOne
  \/ FetchAll
  \/ FetchMany
  \/ Close
  \/ ConnectionClose
  \/ ConnectionCursor
  \/ DoPing

Spec == Init /\ [][Next]_vars

\* the rewriting of the queries alone
NextRewrite == ExecuteQuery

SpecRewrite == Init /\ [][NextRewrite]_vars

\* ------------------------------------------------------------------------
\* The claims
\* ------------------------------------------------------------------------

\* the query of the most recent call
q == last.arg.operation

\* the most recent call was an execute of a cursor that rewrites its query,
\* and it sent a request
Extracting ==
  /\ last.op = "execute"
  /\ impl \in {"connector", "dialect"}
  /\ sent # <<>>

\* the same, for the client that transforms the query first
Transforming ==
  /\ last.op = "execute"
  /\ impl = "dialect"
  /\ sent # <<>>
  /\ q.sel \notin {"one", "one_lc"}

\* what the time extraction was given: the operation (connector), the
\* transformed operation (dialect)
ExtractionInput ==
  IF impl = "dialect" THEN last.trace.transformed ELSE last.trace.text

\* the literal with every space replaced by T, and Z appended
IsoZ(literal) ==
  [i \in 1..Len(literal) |-> IF literal[i] = " " THEN "T" ELSE literal[i]] \o <<"Z">>

\* y is x without its leading and trailing whitespace
IsTrimOf(y, x) ==
  \E i \in 1..(Len(x) + 1) : \E j \in (i - 1)..Len(x) :
    /\ y = SubSeq(x, i, j)
    /\ \A k \in 1..(i - 1) : x[k] \in {" ", "\n", "\t"}
    /\ \A k \in (j + 1)..Len(x) : x[k] \in {" ", "\n", "\t"}
    /\ j >= i => (x[i] \notin {" ", "\n", "\t"} /\ x[j] \notin {" ", "\n", "\t"})

\* y is x with one occurrence of clause cut out, trimmed
IsCutOf(y, x, clause) ==
  \E k \in 0..(Len(x) - Len(clause)) :
    /\ SubSeq(x, k + 1, k + Len(clause)) = clause
    /\ IsTrimOf(y, SubSeq(x, 1, k) \o SubSeq(x, k + Len(clause) + 1, Len(x)))

\* C1: for a query with the time-range shape WHERE p_timestamp >= 'A' AND
\* p_timestamp < 'B' (keywords in any case), the time extraction returns
\* the query without the matched clause (for a query without further
\* conditions: the text around the clause, and nothing else changed), the
\* start A with every space replaced by T and Z appended, the end B likewise;
\* and these are the startTime and endTime of the request execute sends.
\* A and B are time literals: digits and spaces.
TimeRangeExtracted ==
  (Extracting /\ HasShape(q)) =>
    /\ last.trace.extracted.start = IsoZ(TimeLiterals[q.A])
    /\ last.trace.extracted.end = IsoZ(TimeLiterals[q.B])
    /\ sent[1].startTime = IsoZ(TimeLiterals[q.A])
    /\ sent[1].endTime = IsoZ(TimeLiterals[q.B])
    /\ ~Contains(last.trace.extracted.query, ClauseText(q))
    /\ q.more = "none" =>
         IsCutOf(last.trace.extracted.query, ExtractionInput, ClauseText(q))

\* a dialect cursor sent '1 2' and '4 5 6' as 1T2Z and 4T5T6Z
TimeRangeExtractedWitness ==
  /\ Extracting /\ HasShape(q)
  /\ impl = "dialect"
  /\ q.where = "lower"
  /\ sent[1].startTime = <<"1", "T", "2", "Z">>
  /\ sent[1].endTime = <<"4", "T", "5", "T", "6", "Z">>
  /\ ~Contains(sent[1].query, W_p_timestamp)

\* C2: for a query with the time-range shape followed by a further condition
\* (AND l = 'e'), the query the time extraction returns keeps the condition
\* in a WHERE clause: the AND that joined it to the removed clause is
\* replaced by WHERE.
OtherConditionsKept ==
  (Extracting /\ HasShape(q) /\ q.more # "none") =>
    /\ Contains(last.trace.extracted.query, W_WHERE \o Sp \o W_level)
    /\ ~Contains(last.trace.extracted.query, MoreText(q))

\* C3: for a query without the time-range shape (no WHERE, another WHERE,
\* reordered operands, parentheses, OR), the request has startTime "10m" and
\* endTime "now", and the time extraction returns its query unchanged but for
\* the whitespace at its ends.
DefaultTimeRange ==
  (Extracting /\ ~HasShape(q)) =>
    /\ sent[1].startTime = <<"1", "0", "m">>
    /\ sent[1].endTime = <<"n", "o", "w">>
    /\ IsTrimOf(last.trace.extracted.query, ExtractionInput)

\* a connector cursor executed a padded query with OR between the operands
DefaultTimeRangeWitness ==
  /\ Extracting /\ ~HasShape(q)
  /\ impl = "connector"
  /\ q.where = "or" /\ q.pad
  /\ sent[1].startTime = <<"1", "0", "m">>
  /\ sent[1].query # last.trace.text
  /\ Contains(sent[1].query, W_OR \o Sp \o W_p_timestamp)

\* the select list the claim on aggregates expects: the column of AVG and
\* SUM cast, the rest as in the input
ExpectedSelText(query, table) ==
  CASE query.sel \in {"avg", "avg_lc"} ->
         <<"A", "V", "G", "(", "T", "R", "Y", "_", "C", "A", "S", "T", "(", "x", " ",
           "A", "S", " ", "D", "O", "U", "B", "L", "E", ")", ")">>
    [] query.sel = "sum_sp" ->
         <<"S", "U", "M", "(", "T", "R", "Y", "_", "C", "A", "S", "T", "(", "x", " ",
           "A", "S", " ", "D", "O", "U", "B", "L", "E", ")", ")">>
    [] OTHER -> SelText(query, table)

\* C4: _transform_query wraps the column of each AVG and SUM call in
\* TRY_CAST(col AS DOUBLE), and leaves each COUNT call as it is in the input,
\* in letter case and whitespace, as it does the other select lists.
AggregatesRewritten ==
  Transforming =>
    Contains(last.trace.transformed,
             W_SELECT \o Sp \o ExpectedSelText(q, table_name) \o Sp \o W_FROM)

\* the positions of the LIMIT keyword in a text, in any case
LimitPositions(text) ==
  {i \in 1..Len(text) : StartsAtIgnoreCase(text, i, W_LIMIT)}

\* the limit of the query: that of its own LIMIT clause, which is the last
\* one of the text; the one of its subquery when it has none
OwnLimit(query) == IF query.lim = "none" THEN 7 ELSE LimValue(query)

\* the value of the LIMIT clause the claim on LIMIT expects
ExpectedLimit(query) ==
  IF LimitCount(query) = 0 THEN 100
  ELSE IF OwnLimit(query) < 100 THEN OwnLimit(query) ELSE 100

\* C5: the query _transform_query produces has exactly one LIMIT clause, at
\* its end, with the value min(n, 100) for the limit n of the input, 100 for
\* an input without LIMIT; with no, one and two LIMIT clauses in the input,
\* and with a clause after the LIMIT.
OneCappedLimit ==
  Transforming =>
    LET text == last.trace.transformed
        tail == <<" ">> \o W_LIMIT \o <<" ">> \o IntToStr(ExpectedLimit(q))
    IN  /\ Cardinality(LimitPositions(text)) = 1
        /\ Len(text) >= Len(tail)
        /\ SubSeq(text, Len(text) - Len(tail) + 1, Len(text)) = tail

\* the value of the column named name in a row of the server
HasValue(row, name, value) ==
  \E p \in 1..Len(row) : row[p][1] = name /\ row[p][2] = value

\* C6: a fetchall() directly after an execute() that returned returns
\* exactly rowcount tuples, and in each tuple the value at position i is the
\* value of the column description[i] names; for rows with the keys in
\* another order than the first row's, and for an empty list as response.
FetchAllMatchesExecute ==
  [][(last.op = "execute" /\ last.err = "none" /\ last'.op = "fetchall") =>
       /\ last'.err = "none"
       /\ Len(last'.ret.v) = rowcount'
       /\ \A k \in 1..Len(last'.ret.v) :
            /\ description' # NoDescription
            /\ Len(last'.ret.v[k]) = Len(description'.cols)
            /\ \A i \in 1..Len(description'.cols) :
                 HasValue(rows[k], description'.cols[i].name, last'.ret.v[k][i])]_vars

\* C7: in a state with an empty row buffer (never executed, executed with an
\* empty result, consumed by fetches, closed), fetchone() returns None, does
\* not raise, and leaves rows, rowcount and description as they are.
FetchOneOnEmpty ==
  [][(rows = <<>> /\ last'.op = "fetchone") =>
       /\ last'.ret = NoneValue
       /\ last'.err = "none"
       /\ cursor' = cursor]_vars

\* fetchone() returned None on a cursor whose rows were fetched
FetchOneOnEmptyWitness ==
  /\ last.op = "fetchone"
  /\ last.ret = NoneValue
  /\ last.err = "none"
  /\ rows = <<>>
  /\ rowcount = 2

\* C8: in every cursor implementation, executemany raises the "not
\* supported" error, sends no request and changes no cursor state.
ExecuteManyNotSupported ==
  [][last'.op = "executemany" =>
       /\ last'.err = "NotImplementedError"
       /\ last'.msg = <<"executemany is not supported">>
       /\ sent' = <<>>
       /\ cursor' = cursor]_vars

\* C9: when the server answers the request with a status that is no success
\* and the body B, execute raises a DatabaseError whose message has B in
\* it, in every cursor implementation.
ErrorCarriesBody ==
  (/\ last.op = "execute"
   /\ sent # <<>>
   /\ last.arg.response.kind = "http"
   /\ last.arg.response.status \in ErrorStatuses) =>
    /\ last.err = "DatabaseError"
    /\ \E i \in 1..Len(last.msg) : last.msg[i] = last.arg.response.text

\* the bound table name has a hyphen, a space or a dot in it
NeedsQuotes(table) == \E i \in 1..Len(table) : table[i] \in {"-", " ", "."}

\* the positions of the quoted and of the bare table name in a text
QuotedAt(text, table) ==
  {i \in 1..Len(text) : StartsAt(text, i, DoubleQuote(table))}

BareAt(text, table) ==
  {i \in 1..Len(text) : StartsAt(text, i, table)}

\* C10: for a bound table name with a hyphen, a space or a dot, each
\* reference to the table in the query execute_query transmits is in double
\* quotes, once: the name occurs nowhere without a quote on both sides, and
\* nowhere with two.
TableQuotedOnce ==
  (Transforming /\ NeedsQuotes(table_name)) =>
    LET text == sent[1].query IN
    /\ \A i \in BareAt(text, table_name) : i - 1 \in QuotedAt(text, table_name)
    /\ \A i \in QuotedAt(text, table_name) :
         ~(i > 1 /\ text[i - 1] = "\"" /\ i + Len(table_name) + 2 <= Len(text)
             /\ text[i + Len(table_name) + 2] = "\"")
\* C11: fetchall() returns all rows of the buffer, in order, and leaves the
\* buffer empty, so that a fetchone() that follows it returns None and a
\* fetchall() that follows it returns an empty list; in every cursor
\* implementation.
FetchAllDrains ==
  [][/\ (last'.op = "fetchall" /\ last'.err = "none") =>
          /\ last'.ret = ListValue(Tuples(rows))
          /\ rows' = <<>>
     /\ (last.op = "fetchall" /\ last.err = "none" /\ last'.op = "fetchone") =>
          last'.ret = NoneValue
     /\ (last.op = "fetchall" /\ last.err = "none" /\ last'.op = "fetchall") =>
          last'.ret = ListValue(<<>>)]_vars

\* the size the claim on fetchmany expects a call to work with: arraysize
\* when none is given, 1 at least
EffectiveSize(size) ==
  IF ~size.given THEN arraysize ELSE IF size.n < 1 THEN 1 ELSE size.n

\* C12: fetchmany(n) returns the first min(n, length of the buffer) rows as
\* tuples, in order, and leaves the rows after them; without n it takes
\* arraysize; n is taken as 1 at least, so that with n = 0 or n < 0 nothing
\* is cut from the back of the buffer; in every cursor implementation.
FetchManyFromFront ==
  [][last'.op = "fetchmany" =>
       LET n   == EffectiveSize(last'.arg.size)
           cut == IF n < Len(rows) THEN n ELSE Len(rows)
       IN  /\ last'.err = "none"
           /\ last'.ret = ListValue([k \in 1..cut |-> Values(rows[k])])
           /\ rows' = [k \in 1..(Len(rows) - cut) |-> rows[cut + k]]]_vars

\* the calls that fetch
FetchCalls == {"fetchone", "fetchmany", "fetchall"}

\* C13: close() leaves the row buffer empty, and on an empty buffer every
\* fetchone, fetchmany and fetchall returns None or an empty list, does not
\* raise and leaves the buffer empty: so it is for every fetch after a
\* close(), until an execute.
FetchAfterClose ==
  [][/\ last'.op = "close" => (rows' = <<>> /\ last'.err = "none")
     /\ (rows = <<>> /\ last'.op \in FetchCalls) =>
          /\ last'.err = "none"
          /\ last'.ret \in {NoneValue, ListValue(<<>>)}
          /\ rows' = <<>>]_vars

\* the step is an execute that returned
ExecuteReturned == last'.op = "execute" /\ last'.err = "none"

\* the server answered the execute of the step with an empty list
EmptyBody ==
  /\ last'.arg.response.kind = "http"
  /\ last'.arg.response.json.t = "rows"
  /\ last'.arg.response.json.v = <<>>

\* C14: an execute that returns and whose response body is an empty list
\* leaves the row buffer empty, rowcount 0 and description None, whatever the
\* cursor held before.
EmptyBodyResets ==
  [][(ExecuteReturned /\ EmptyBody) =>
       /\ rows' = <<>>
       /\ rowcount' = 0
       /\ description' = NoDescription]_vars

\* C15: when execute returns, rowcount is the number of rows in the buffer.
RowcountIsBufferLength ==
  [][ExecuteReturned => rowcount' = Len(rows')]_vars

\* the execute of the do_ping of the step completed without raising: there is
\* a cursor to execute on (the connection of the table-scoped variant is
\* open), and execute did not raise
PingExecuteCompleted ==
  /\ ~closed
  /\ PingExecute(last'.arg.response).last.err = "none"

\* the server rejected the request: no response, or an error status
Rejected(resp) == resp.kind = "failure" \/ resp.status \in ErrorStatuses

\* C16: do_ping returns True exactly when the execute of its liveness query
\* completed without raising and False otherwise, and never raises: it
\* returns False on a closed connection, on a connection without bound
\* table and when the server rejects the request.
PingReportsExecute ==
  [][last'.op = "do_ping" =>
       /\ last'.err = "none"
       /\ last'.ret = BoolValue(PingExecuteCompleted)
       /\ (closed \/ Rejected(last'.arg.response)
             \/ (impl = "dialect" /\ table_name \in {None, <<>>})) =>
            last'.ret = BoolValue(FALSE)]_vars

\* do_ping returned False for a request the server rejected, True before
PingReportsExecuteWitness ==
  /\ last.op = "do_ping"
  /\ last.ret = BoolValue(FALSE)
  /\ last.arg.response.kind = "http"
  /\ last.arg.response.status = 500
  /\ sent # <<>>

\* close() of the connection has been called: it was the call before, or
\* the connection recorded it
CloseCalled == last.op = "connection.close" \/ closed

\* C17: once close() of the connection has been called, cursor() raises
\* InterfaceError, and an execute through a cursor of that connection raises
\* InterfaceError and sends no HTTP request.
ClosedConnectionRefuses ==
  [][(CloseCalled /\ last'.op \in {"connection.cursor", "execute"}) =>
       /\ last'.err = "InterfaceError"
       /\ sent' = <<>>]_vars

\* the execute of the step fails: the connection of the table-scoped variant
\* has no table name, there is no response, the status is an error (or, for
\* the root and the connector cursor, is not 200), or the body is no JSON
ExecuteFails ==
  LET resp == last'.arg.response IN
  /\ last'.op = "execute"
  /\ \/ impl = "dialect" /\ table_name \in {None, <<>>}
     \/ resp.kind = "failure"
     \/ resp.kind = "http" /\ resp.status \in ErrorStatuses
     \/ resp.kind = "http" /\ resp.status # 200 /\ impl # "dialect"
     \/ resp.kind = "http" /\ resp.json.t = "malformed"

\* C18: an execute that fails (no table name, transport failure, error
\* status, malformed JSON) raises and leaves the row buffer, rowcount and
\* description as they were; "SELECT 1" included.
FailedExecuteKeepsCursor ==
  [][ExecuteFails => (last'.err # "none" /\ UNCHANGED cursor)]_vars

\* a "SELECT 1" of the dialect cursor failed on a body that is no JSON, and
\* the cursor holds the two rows of the execute before
FailedExecuteKeepsCursorWitness ==
  /\ impl = "dialect"
  /\ last.op = "execute"
  /\ last.arg.operation = Select1
  /\ last.arg.response.kind = "http"
  /\ last.arg.response.status = 200
  /\ last.arg.response.json.t = "malformed"
  /\ last.err = "DatabaseError"
  /\ Len(rows) = 2
  /\ rowcount = 2
  /\ description # NoDescription

\* C19: execute of the dialect cursor on a connection without table name
\* (None or empty) raises DatabaseError, sends no HTTP request and leaves the
\* row buffer, rowcount and description as they were, for every query,
\* "SELECT 1" included.
NoTableRaisesFirst ==
  [][(impl = "dialect" /\ table_name \in {None, <<>>} /\ last'.op = "execute") =>
       /\ last'.err = "DatabaseError"
       /\ sent' = <<>>
       /\ UNCHANGED cursor]_vars

\* "SELECT 1" was executed on a connection with the empty table name
NoTableRaisesFirstWitness ==
  /\ impl = "dialect"
  /\ table_name = <<>>
  /\ last.op = "execute"
  /\ IsSelect1(QueryText(last.arg.operation, table_name))
  /\ last.err = "DatabaseError"
  /\ sent = <<>>

\* the request of the execute of the step fails: no response, an error
\* status, a body that is no JSON
RequestFails ==
  LET resp == last'.arg.response IN
  /\ last'.op = "execute"
  /\ sent' # <<>>
  /\ \/ resp.kind = "failure"
     \/ resp.kind = "http" /\ resp.status \in ErrorStatuses
     \/ resp.kind = "http" /\ resp.json.t = "malformed"

\* C20: an execute sends one HTTP request at most; when the request fails,
\* the execute that sent it raises, having sent it once, and the calls that
\* are no execute send nothing.
OneRequestPerExecute ==
  [][/\ last'.op = "execute" => Len(sent') <= 1
     /\ RequestFails => (last'.err # "none" /\ Len(sent') = 1)
     /\ last'.op \notin {"execute", "do_ping"} => sent' = <<>>]_vars

\* an execute of the connector cursor raised on a response of status 500,
\* having sent its request
OneRequestPerExecuteWitness ==
  /\ impl = "connector"
  /\ last.op = "execute"
  /\ last.arg.response.kind = "http"
  /\ last.arg.response.status = 500
  /\ last.err = "DatabaseError"
  /\ Len(sent) = 1

\* the execute of the step returned, the body of its response being the row
\* sequence the claim names R; the "SELECT 1" of the dialect cursor, which
\* has a row of its own, is left aside
ReturnedRowSequence ==
  /\ ExecuteReturned
  /\ last'.arg.response.json.t = "rows"
  /\ ~(impl = "dialect" /\ last'.arg.operation \in PingQueries)

\* the buffer holds rows of a response that execute accepted
BufferOfRows == \A k \in 1..Len(rows) : IsObject(rows[k])

\* the step is a fetchmany with a size of 1 at least, or with none
FetchManySized ==
  /\ last'.op = "fetchmany"
  /\ last'.arg.size.given => last'.arg.size.n >= 1

\* C21: after an execute that returned the rows R the buffer is R; fetchone
\* and fetchmany(n >= 1) return the first rows of the buffer as tuples, in
\* order, and remove what they return and nothing else, so that what they
\* return one after the other is a prefix of R; fetchone on the empty buffer
\* returns None; no fetch and no close changes rowcount or description.
FetchesFollowResult ==
  [][/\ ReturnedRowSequence => rows' = last'.arg.response.json.v
     /\ (last'.op = "fetchone" /\ BufferOfRows) =>
          /\ last'.err = "none"
          /\ IF rows = <<>>
             THEN last'.ret = NoneValue /\ rows' = <<>>
             ELSE last'.ret = TupleValue(Values(Head(rows))) /\ rows' = Tail(rows)
     /\ (FetchManySized /\ BufferOfRows) =>
          LET n   == EffectiveSize(last'.arg.size)
              cut == IF n < Len(rows) THEN n ELSE Len(rows)
          IN  IF last'.err = "none"
              THEN /\ last'.ret = ListValue([k \in 1..cut |-> Values(rows[k])])
                   /\ rows' = [k \in 1..(Len(rows) - cut) |-> rows[cut + k]]
              ELSE rows' = rows
     /\ last'.op \in FetchCalls \cup {"close"} => UNCHANGED <<rowcount, description>>]_vars

\* C22: _transform_query is idempotent: transforming the query it returned
\* gives that query again, with no second TRY_CAST around the argument of
\* AVG and SUM and with the one LIMIT as it is.
TransformIdempotent ==
  (last.op = "execute" /\ impl = "dialect" /\ sent # <<>>) =>
    _transform_query(last.trace.transformed) = last.trace.transformed

=============================================================================
